---- MODULE Spec2Model ----
(***************************************************************************)
(* Model of the MCP-CAN-Boot flash app (src/flash-app.js): the FlashApp    *)
(* object's fields, its CAN message handler handleCanMsg with the helpers  *)
(* it calls, and the ping timer.  One step of the model is one complete    *)
(* run of a callback of the single-threaded event loop.                    *)
(***************************************************************************)
EXTENDS Integers, Sequences, FiniteSets, TLC

\* ------------------------------------------------------------------------
\* Constants of src/flash-app.js, lines 19-49
\* ------------------------------------------------------------------------
BOOTLOADER_CMD_VERSION == 1

CAN_DATA_BYTE_MCU_ID_MSB == 0
CAN_DATA_BYTE_MCU_ID_LSB == 1
CAN_DATA_BYTE_CMD == 2
CAN_DATA_BYTE_LEN_AND_ADDR == 3

CAN_ID_MCU_TO_REMOTE_DEFAULT == 536870657
CAN_ID_REMOTE_TO_MCU_DEFAULT == 536870658

CMD_PING == 0
CMD_BOOTLOADER_START == 2
CMD_FLASH_INIT == 6
CMD_FLASH_READY == 4
CMD_FLASH_SET_ADDRESS == 10
CMD_FLASH_ADDRESS_ERROR == 11
CMD_FLASH_DATA == 8
CMD_FLASH_DATA_ERROR == 13
CMD_FLASH_DONE == 16
CMD_FLASH_DONE_VERIFY == 80
CMD_FLASH_ERASE == 32
CMD_FLASH_READ == 64
CMD_FLASH_READ_DATA == 72
CMD_FLASH_READ_ADDRESS_ERROR == 75
CMD_START_APP == 128

STATE_INIT == 0
STATE_FLASHING == 1
STATE_READING == 2

\* ------------------------------------------------------------------------
\* JavaScript values and operators
\* ------------------------------------------------------------------------
\* The JavaScript value undefined (an index outside an array, a missing
\* option); no byte, address or option value of the model is negative.
Undefined == -1
\* The JavaScript value null of memMapCurrentKey.
Null == -2
\* process still running (no process.exit yet, no uncaught exception)
Running == -1
\* the exit code of a process ended by an uncaught exception
UncaughtException == 1

\* x & y on 32-bit two's complement integers (x, y within int32).
RECURSIVE BitAnd(_, _)
BitAnd(x, y) ==
  IF x = 0 \/ y = 0 THEN 0
  ELSE IF x = -1 THEN y
  ELSE IF y = -1 THEN x
  ELSE (x % 2) * (y % 2) + 2 * BitAnd(x \div 2, y \div 2)

\* x | y on 32-bit two's complement integers.
BitOr(x, y) == x + y - BitAnd(x, y)

\* x >> n: the sign-propagating right shift.
Shr(x, n) == x \div (2 ^ n)

\* x << n for 2 <= n <= 31: the low 32 bits of x * 2^n read as a signed
\* integer.  Only the low 32-n bits of x survive; the product is formed
\* from their signed reading, which keeps every intermediate value in int32.
Shl(x, n) ==
  LET m  == 2 ^ (32 - n)
      xr == x % m
  IN  IF 2 * xr >= m THEN (xr - m) * (2 ^ n) ELSE xr * (2 ^ n)

\* ToInt32 of the number hi * 2^16 + lo (0 <= hi, lo < 2^16): the operand
\* that >> and & see when given a number up to 0xFFFFFFFF.
ToInt32(hi, lo) == BitOr(Shl(hi, 16), lo)

\* arr[i] of a JavaScript array or Buffer (0-based; undefined outside).
At(arr, i) == IF i >= 0 /\ i < Len(arr) THEN arr[i + 1] ELSE Undefined

\* arr with arr[i] = v (0-based, i inside the array).
Put(arr, i, v) == [arr EXCEPT ![i + 1] = v]

\* the value stored in a Buffer / Uint8Array element
ToUint8(v) == IF v = Undefined THEN 0 ELSE v % 256

\* ------------------------------------------------------------------------
\* State
\* ------------------------------------------------------------------------
VARIABLES
  args,                 \* this.args: the options the handlers read
  deviceSignature,      \* this.deviceSignature
  deviceFlashSize,      \* this.deviceFlashSize
  memMap,               \* this.memMap: blocks in ascending key order
  doRead,               \* this.doRead
  doVerify,             \* this.doVerify
  doErase,              \* this.doErase
  state,                \* this.state
  pingInterval,         \* this.pingInterval is set (the timer is armed)
  memMapKeys,           \* this.memMapKeys: keys the iterator has yielded
  memMapCurrentKey,     \* this.memMapCurrentKey
  memMapCurrentDataIdx, \* this.memMapCurrentDataIdx
  curAddr,              \* this.curAddr
  readDataArr,          \* this.readDataArr
  exitCode,             \* the code the process ended with, or Running
  event,                \* the callback that ran last
  lastMsg,              \* the CAN message given to the last handleCanMsg
  out,                  \* the frames the last callback gave to can.send
  log,                  \* the console lines the last callback wrote
  cmp,                  \* the image addresses the last callback compared
  files,                \* the hex files the last callback wrote
  compared,             \* image address -> comparisons made so far
  history,              \* what the session has emitted / reported so far
  target                \* the bootloader at the other end, where it is modelled

cfgVars  == <<args, deviceSignature, deviceFlashSize, memMap, doRead, doVerify>>
appVars  == <<doErase, state, pingInterval, memMapKeys, memMapCurrentKey,
              memMapCurrentDataIdx, curAddr, readDataArr, exitCode>>
obsVars  == <<event, lastMsg, out, log, cmp, files, compared, history>>
vars     == <<cfgVars, appVars, obsVars, target>>

\* ------------------------------------------------------------------------
\* Bounds of the model
\* ------------------------------------------------------------------------
\* readDataArr holds at most this many bytes
MaxReadLen == 4
\* memMapCurrentDataIdx is at most this
MaxDataIdx == 8

\* ------------------------------------------------------------------------
\* Inputs of the model: command lines and hex files
\* ------------------------------------------------------------------------
\* --mcuid of the examples in the usage text
ArgsMcuid == 66

\* hex files, as MemoryMap.fromHex returns them: blocks of contiguous bytes
\* in ascending order of their start address
ImageS3    == << [key |-> 0, data |-> <<1, 2, 3, 4>>],
                 [key |-> 256, data |-> <<5>>] >>
ImageFive  == << [key |-> 0, data |-> <<1, 2, 3, 4, 5>>] >>
ImageTwo   == << [key |-> 0, data |-> <<1, 2>>],
                 [key |-> 256, data |-> <<5>>] >>
ImageSix   == << [key |-> 0, data |-> <<1, 2, 3, 4, 5, 6>>] >>
ImageEmpty == << >>
Images     == {ImageS3, ImageFive, ImageTwo, ImageEmpty}

\* values of option -r after parseNumber: Undefined (option absent), 0 (the
\* option without a number, which parseNumber turns into NaN, or the number
\* 0: both are falsy and not > 0), or a maximum address
ArgsR == {0, 2}

Partnos == {"m328p", "unknown"}

\* a command line: -e, -V, -F, --ping, -r, -p and the hex file of -f
CommandLine(e, V, F, ping, r, partno, file) ==
  [ e |-> e, V |-> V, F |-> F, ping |-> ping, r |-> r, partno |-> partno,
    file |-> file ]

\* Each option is varied with the options whose code it shares a branch
\* with: the hex file with -e and with -V; -F, --ping and -p, which are
\* read in STATE_INIT only, with each other; -r with -e and with --ping.
CommandLines ==
       { CommandLine(e, TRUE, FALSE, FALSE, Undefined, "m328p", f) :
           e \in BOOLEAN, f \in Images }
  \cup { CommandLine(FALSE, FALSE, FALSE, FALSE, Undefined, "m328p", f) :
           f \in {ImageTwo, ImageS3, ImageEmpty} }
  \cup { CommandLine(FALSE, TRUE, F, ping, Undefined, p, ImageS3) :
           F \in BOOLEAN, ping \in BOOLEAN, p \in Partnos }
  \cup { CommandLine(e, FALSE, FALSE, FALSE, r, "m328p", ImageEmpty) :
           e \in BOOLEAN, r \in ArgsR }
  \cup { CommandLine(FALSE, FALSE, FALSE, TRUE, 0, "m328p", ImageEmpty) }
  \cup { CommandLine(FALSE, TRUE, FALSE, FALSE, Undefined, "m328p", ImageSix) }

\* ------------------------------------------------------------------------
\* Device catalog
\* ------------------------------------------------------------------------
\* the alias in lower case maps to signature and flash size
Device(sig, kib) == [deviceSignature |-> sig, deviceFlashSize |-> kib * 1024]

loadDeviceInfo(partno) ==
  CASE partno \in {"m32", "mega32", "atmega32"} ->
         Device(<<30, 149, 2>>, 32)
    [] partno \in {"m32u4", "mega32u4", "atmega32u4"} ->
         Device(<<30, 149, 135>>, 32)
    [] partno \in {"m328", "mega328", "atmega328"} ->
         Device(<<30, 149, 20>>, 32)
    [] partno \in {"m328p", "mega328p", "atmega328p"} ->
         Device(<<30, 149, 15>>, 32)
    [] partno \in {"m328pb", "mega328pb", "atmega328pb"} ->
         Device(<<30, 149, 22>>, 32)
    [] partno \in {"m64", "mega64", "atmega64"} ->
         Device(<<30, 150, 2>>, 64)
    [] partno \in {"m644p", "mega644p", "atmega644p"} ->
         Device(<<30, 150, 10>>, 64)
    [] partno \in {"m128", "mega128", "atmega128"} ->
         Device(<<30, 151, 2>>, 128)
    [] partno \in {"m1284p", "mega1284p", "atmega1284p"} ->
         Device(<<30, 151, 5>>, 128)
    [] partno \in {"m2560", "mega2560", "atmega2560"} ->
         Device(<<30, 152, 1>>, 256)
    [] OTHER ->
         Device(<<0, 0, 0>>, 0)

\* a faulty variant of mcuId with the two bytes swapped
mcuId_Swapped == << BitAnd(args.mcuid, 255), BitAnd(Shr(args.mcuid, 8), 255) >>

\* this.mcuId
mcuId == << BitAnd(Shr(args.mcuid, 8), 255), BitAnd(args.mcuid, 255) >>

\* ------------------------------------------------------------------------
\* The memory map (nrf-intel-hex MemoryMap, a Map of address -> bytes)
\* ------------------------------------------------------------------------
\* this.memMap.get(key) is not undefined
MemHas(key) == \E i \in 1..Len(memMap) : memMap[i].key = key

\* this.memMap.get(key), for a key the map has
MemGet(key) == (CHOOSE i \in 1..Len(memMap) : memMap[i].key = key)

\* this.memMap.get(key)[idx], for a key the map has
MemByte(key, idx) == At(memMap[MemGet(key)].data, idx)

\* the addresses the image has a byte for
ImageAddrs == UNION { { memMap[i].key + j : j \in 0..(Len(memMap[i].data) - 1) } :
                      i \in 1..Len(memMap) }

\* the byte the image has for address a of ImageAddrs
ImageByte(a) ==
  LET i == CHOOSE k \in 1..Len(memMap) :
             a >= memMap[k].key /\ a < memMap[k].key + Len(memMap[k].data)
  IN  memMap[i].data[a - memMap[i].key + 1]

\* this.memMapKeys.next().done
KeysDone(a) == a.memMapKeys >= Len(memMap)

\* this.memMapKeys.next().value, when not done
KeysValue(a) == memMap[a.memMapKeys + 1].key

\* ------------------------------------------------------------------------
\* The object during one callback.  A callback is a function from the
\* fields at its start to the fields at its end, together with what it
\* sent (out), printed (log), compared (cmp), wrote (files) and how it
\* ended (flow: "run" while running, "return", "throw", "exit").
\* ------------------------------------------------------------------------
This ==
  [ doErase |-> doErase, state |-> state, pingInterval |-> pingInterval,
    memMapKeys |-> memMapKeys, memMapCurrentKey |-> memMapCurrentKey,
    memMapCurrentDataIdx |-> memMapCurrentDataIdx, curAddr |-> curAddr,
    readDataArr |-> readDataArr, exitCode |-> exitCode,
    out |-> <<>>, log |-> <<>>, cmp |-> <<>>, files |-> <<>>, flow |-> "run" ]

\* this.can.send({id: this.args.canIdRemote, ..., data: Buffer.from(data)})
canSend(a, data) ==
  [a EXCEPT !.out = Append(@, [id |-> args.canIdRemote, data |-> data])]

\* console.log / console.warn of the line the claims distinguish
consoleLog(a, text, num) == [a EXCEPT !.log = Append(@, <<text, num>>)]

\* return from handleCanMsg
return(a) == [a EXCEPT !.flow = "return"]

\* the four address bytes the app writes into bytes 4..7 of a frame
AddrBytes(addr) ==
  << BitAnd(Shr(addr, 24), 255), BitAnd(Shr(addr, 16), 255),
     BitAnd(Shr(addr, 8), 255), BitAnd(addr, 255) >>

\* a faulty variant of exit that always reports a failure
exit_Failure(a, code) ==
  [a EXCEPT !.pingInterval = FALSE, !.exitCode = 1, !.flow = "exit"]

\* exit(code): clear the ping timer, stop the channel, process.exit(code)
exit(a, code) ==
  [a EXCEPT !.pingInterval = FALSE, !.exitCode = code, !.flow = "exit"]

sendStartApp(a) ==
  canSend(a, <<mcuId[1], mcuId[2], CMD_START_APP, 0, 0, 0, 0, 0>>)

sendSetFlashAddress(a, addr) ==
  canSend(a, <<mcuId[1], mcuId[2], CMD_FLASH_SET_ADDRESS, 0>> \o AddrBytes(addr))

\* the FLASH_READ request of readForVerify and of the read branch
sendFlashRead(a) ==
  canSend(a, <<mcuId[1], mcuId[2], CMD_FLASH_READ, 0>> \o AddrBytes(a.curAddr))

\* the condition of lines 564 and 667: there is no current block, or the
\* current block has no byte at the current index
NoMoreData(a) ==
  \/ ~MemHas(a.memMapCurrentKey)
  \/ MemByte(a.memMapCurrentKey, a.memMapCurrentDataIdx) = Undefined

\* a faulty variant of ApplyNextKey that keeps the current address
ApplyNextKey_KeepAddress(a) ==
  [a EXCEPT !.memMapKeys = @ + 1,
            !.memMapCurrentKey = KeysValue(a),
            !.memMapCurrentDataIdx = 0]

\* lines 575-578 and 719-722: take the next key of the iterator
ApplyNextKey(a) ==
  [a EXCEPT !.memMapKeys = @ + 1,
            !.memMapCurrentKey = KeysValue(a),
            !.memMapCurrentDataIdx = 0,
            !.curAddr = KeysValue(a)]

readForVerify(a) ==
  IF NoMoreData(a)
  THEN IF KeysDone(a)
       THEN sendStartApp(consoleLog(a, "Flash and verify done", 0))
       ELSE sendFlashRead(ApplyNextKey(a))
  ELSE sendFlashRead(a)

readDone(a) ==
  LET hex == [ key |-> 0, data |-> [ i \in 1..Len(a.readDataArr) |->
                                        ToUint8(a.readDataArr[i]) ] ]
  IN  sendStartApp([a EXCEPT !.files = Append(@, hex)])

\* ------------------------------------------------------------------------
\* onFlashReady
\* ------------------------------------------------------------------------
\* line 664: the remote address of a FLASH_READY message
curAddrRemote(msgData) ==
  At(msgData, 7) + Shl(At(msgData, 6), 8) + Shl(At(msgData, 5), 16)
                 + Shl(At(msgData, 4), 24)

\* a faulty variant of FlashComplete that always asks for the verify pass
FlashComplete_AlwaysVerify(a) ==
  canSend([a EXCEPT !.state = STATE_READING],
          <<mcuId[1], mcuId[2], CMD_FLASH_DONE_VERIFY, 0, 0, 0, 0, 0>>)

\* lines 671-711: all keys done, flash complete
FlashComplete(a) ==
  IF doVerify
  THEN canSend([a EXCEPT !.state = STATE_READING],
               <<mcuId[1], mcuId[2], CMD_FLASH_DONE_VERIFY, 0, 0, 0, 0, 0>>)
  ELSE canSend(a, <<mcuId[1], mcuId[2], CMD_FLASH_DONE, 0, 0, 0, 0, 0>>)

\* lines 745-753: add the 4 data bytes if available; f.data is the buffer,
\* f.dataBytes the number of bytes added
RECURSIVE FillData(_, _, _)
FillData(a, f, i) ==
  IF i >= 4 THEN f
  ELSE LET byte == MemByte(a.memMapCurrentKey, a.memMapCurrentDataIdx + i)
       IN  IF byte = Undefined THEN f
           ELSE FillData(a, [data |-> Put(f.data, 4 + i, ToUint8(byte)),
                             dataBytes |-> f.dataBytes + 1], i + 1)

\* a faulty variant of LenAndAddr that always announces 4 data bytes
LenAndAddr_AlwaysFour(dataBytes, addr) ==
  ToUint8(BitOr(Shl(4, 5), BitAnd(addr, 31)))

\* line 756: the length-and-address byte of a FLASH_DATA message
LenAndAddr(dataBytes, addr) == ToUint8(BitOr(Shl(dataBytes, 5), BitAnd(addr, 31)))

\* lines 732-767: send data to flash
sendFlashData(a) ==
  LET f == FillData(a, [data |-> <<mcuId[1], mcuId[2], CMD_FLASH_DATA, 0, 0, 0, 0, 0>>,
                        dataBytes |-> 0], 0)
  IN  canSend(a, Put(f.data, CAN_DATA_BYTE_LEN_AND_ADDR,
                     LenAndAddr(f.dataBytes, a.curAddr)))

\* a faulty variant of NeedSetAddress that never sets the address
NeedSetAddress_Never(addr, remote) == FALSE

\* line 725: the address must be set before sending data
NeedSetAddress(addr, remote) == addr # remote

onFlashReady(a, msgData) ==
  IF NoMoreData(a) /\ KeysDone(a)
  THEN FlashComplete(a)
  ELSE LET b == IF NoMoreData(a) THEN ApplyNextKey(a) ELSE a
       IN  IF NeedSetAddress(b.curAddr, curAddrRemote(msgData))
           THEN sendSetFlashAddress(b, b.curAddr)
           ELSE sendFlashData(b)

\* ------------------------------------------------------------------------
\* handleCanMsg
\* ------------------------------------------------------------------------
\* a faulty variant of ForThisSession that accepts any number of data bytes
ForThisSession_AnyLength(msg) ==
  /\ msg.id = args.canIdMcu
  /\ At(msg.data, CAN_DATA_BYTE_MCU_ID_LSB)
       + Shl(At(msg.data, CAN_DATA_BYTE_MCU_ID_MSB), 8) = args.mcuid

\* lines 277-282: the message is for this bootloader session
ForThisSession(msg) ==
  /\ Len(msg.data) = 8
  /\ msg.id = args.canIdMcu
  /\ At(msg.data, CAN_DATA_BYTE_MCU_ID_LSB)
       + Shl(At(msg.data, CAN_DATA_BYTE_MCU_ID_MSB), 8) = args.mcuid

\* a faulty variant of SignatureMismatch that looks at the first byte only
SignatureMismatch_FirstByte(data, sig) == At(data, 4) # sig[1]

\* line 292: the device signature of the message is not the expected one
SignatureMismatch(data, sig) ==
  At(data, 4) # sig[1] \/ At(data, 5) # sig[2] \/ At(data, 6) # sig[3]

\* a faulty variant of VersionRefused that ignores the force flag
VersionRefused_NoForce(data, force) == At(data, 7) # BOOTLOADER_CMD_VERSION

\* lines 299-306: the bootloader version is refused
VersionRefused(data, force) ==
  At(data, 7) # BOOTLOADER_CMD_VERSION /\ ~force

\* lines 290-331
InitBootloaderStart(a, msg) ==
  IF SignatureMismatch(msg.data, deviceSignature)
  THEN return(consoleLog(a, "device signature missmatched", 0))
  ELSE IF VersionRefused(msg.data, args.F)
  THEN return(consoleLog(a, "ERROR: Bootloader command version", At(msg.data, 7)))
  ELSE canSend([a EXCEPT !.pingInterval = FALSE],
               <<mcuId[1], mcuId[2], CMD_FLASH_INIT, 0,
                 deviceSignature[1], deviceSignature[2], deviceSignature[3], 0>>)

\* a faulty variant of InitFlashReady that tests the erase flag first
InitFlashReady_EraseFirst(a, msg) ==
  IF a.doErase
  THEN [canSend(a, <<mcuId[1], mcuId[2], CMD_FLASH_ERASE, 0, 0, 0, 0, 0>>)
          EXCEPT !.doErase = FALSE]
  ELSE IF doRead
  THEN sendSetFlashAddress(a, ToInt32(65535, 65535))
  ELSE onFlashReady([a EXCEPT !.state = STATE_FLASHING], msg.data)

\* a faulty variant of InitFlashReady that keeps the erase flag set
InitFlashReady_KeepErase(a, msg) ==
  IF doRead
  THEN sendSetFlashAddress(a, ToInt32(65535, 65535))
  ELSE IF a.doErase
  THEN canSend(a, <<mcuId[1], mcuId[2], CMD_FLASH_ERASE, 0, 0, 0, 0, 0>>)
  ELSE onFlashReady([a EXCEPT !.state = STATE_FLASHING], msg.data)

\* lines 333-367
InitFlashReady(a, msg) ==
  IF doRead
  THEN sendSetFlashAddress(a, ToInt32(65535, 65535))
  ELSE IF a.doErase
  THEN [canSend(a, <<mcuId[1], mcuId[2], CMD_FLASH_ERASE, 0, 0, 0, 0, 0>>)
          EXCEPT !.doErase = FALSE]
  ELSE onFlashReady([a EXCEPT !.state = STATE_FLASHING], msg.data)

\* a faulty variant of flashendBL that reads the bytes least significant first
flashendBL_LittleEndian(data) ==
  BitOr(BitOr(BitOr(Shl(At(data, 7), 24), Shl(At(data, 6), 16)),
              Shl(At(data, 5), 8)), At(data, 4))

\* lines 373-377
flashendBL(data) ==
  BitOr(BitOr(BitOr(Shl(At(data, 4), 24), Shl(At(data, 5), 16)),
              Shl(At(data, 6), 8)), At(data, 7))

\* lines 382-390: the read size shown by the progress bar
readSizeBytes(r, progSize) ==
  IF r # Undefined /\ r # 0 /\ ~(r >= progSize) THEN r ELSE progSize

\* lines 369-411
InitFlashAddressError(a, msg) ==
  IF doRead
  THEN LET progSize == flashendBL(msg.data) + 1
           blSize   == deviceFlashSize - progSize
           b == consoleLog(consoleLog(a, "Bootloader size", blSize),
                           "progressStart", readSizeBytes(args.r, progSize))
       IN  canSend([b EXCEPT !.state = STATE_READING],
                   <<mcuId[1], mcuId[2], CMD_FLASH_READ, 0, 0, 0, 0, 0>>)
  ELSE consoleLog(a, "WARNING: unexpected CMD_FLASH_ADDRESS_ERROR", 0)

\* lines 413-415, 448-450, 554-556
Unexpected(a, msg) ==
  consoleLog(a, "WARNING: Got unexpected message", At(msg.data, CAN_DATA_BYTE_CMD))

\* lines 434, 470: byteCount
byteCountOf(data) == Shr(At(data, CAN_DATA_BYTE_LEN_AND_ADDR), 5)

\* line 471: addrPart
addrPartOf(data) == BitAnd(At(data, CAN_DATA_BYTE_LEN_AND_ADDR), 31)

\* a faulty variant of FlashingFlashReady that advances the address only
FlashingFlashReady_AddressOnly(a, msg) ==
  LET byteCount == byteCountOf(msg.data)
  IN  onFlashReady([a EXCEPT !.curAddr = @ + byteCount], msg.data)

\* a faulty variant of FlashingError that gives the session up
FlashingError_Abort(a, text) == sendStartApp(consoleLog(a, text, 0))

\* lines 423-431: an error report of the bootloader is printed
FlashingError(a, text) == consoleLog(a, text, 0)

\* lines 433-440
FlashingFlashReady(a, msg) ==
  LET byteCount == byteCountOf(msg.data)
  IN  onFlashReady([a EXCEPT !.curAddr = @ + byteCount,
                             !.memMapCurrentDataIdx = @ + byteCount], msg.data)

\* a faulty variant of UnexpectedAddress: the check is disabled
UnexpectedAddress_Disabled(addr, addrPart) == FALSE

\* line 473: this.curAddr & 0b00011111 !== addrPart.  !== binds tighter
\* than &: the operand of & is the boolean (31 !== addrPart), converted to
\* the number 1 or 0; the if takes the result as true when it is not 0.
UnexpectedAddress(addr, addrPart) ==
  BitAnd(addr, IF 31 # addrPart THEN 1 ELSE 0) # 0

\* lines 487-497: the verify loop from index i on.  Reading [idx] of
\* memMap.get(null), which is undefined, throws a TypeError.
RECURSIVE VerifyLoop(_, _, _, _)
VerifyLoop(a, msg, byteCount, i) ==
  IF i >= byteCount THEN a
  ELSE IF ~MemHas(a.memMapCurrentKey) THEN [a EXCEPT !.flow = "throw"]
  ELSE LET byte == MemByte(a.memMapCurrentKey, a.memMapCurrentDataIdx)
           b == IF byte # Undefined
                THEN [a EXCEPT !.cmp = Append(@, a.memMapCurrentKey
                                                   + a.memMapCurrentDataIdx)]
                ELSE a
       IN  IF byte # Undefined /\ byte # At(msg.data, 4 + i)
           THEN return(sendStartApp(consoleLog(b, "ERROR: Verify failed at", b.curAddr)))
           ELSE VerifyLoop([b EXCEPT !.curAddr = @ + 1,
                                     !.memMapCurrentDataIdx = @ + 1],
                           msg, byteCount, i + 1)

\* lines 504-507: cache the data
RECURSIVE CacheLoop(_, _, _, _)
CacheLoop(a, msg, byteCount, i) ==
  IF i >= byteCount THEN a
  ELSE CacheLoop([a EXCEPT !.readDataArr = Append(@, At(msg.data, 4 + i)),
                           !.curAddr = @ + 1], msg, byteCount, i + 1)

\* line 509: reached max read address
ReachedMaxRead(r, addr) == r > 0 /\ addr > r

\* lines 469-533
ReadingReadData(a, msg) ==
  LET byteCount == byteCountOf(msg.data)
      addrPart  == addrPartOf(msg.data)
  IN  IF UnexpectedAddress(a.curAddr, addrPart)
      THEN return(sendStartApp(consoleLog(a, "Got an unexpected address", addrPart)))
      ELSE IF doVerify
      THEN LET b == VerifyLoop(a, msg, byteCount, 0)
           IN  IF b.flow = "run" THEN readForVerify(b) ELSE b
      ELSE LET b == CacheLoop(a, msg, byteCount, 0)
           IN  IF ReachedMaxRead(args.r, b.curAddr)
               THEN return(readDone(b))
               ELSE sendFlashRead(b)

\* a faulty variant of ReadingFlashDoneVerify that falls back to flashing
ReadingFlashDoneVerify_Flashing(a) ==
  [readForVerify([a EXCEPT !.memMapKeys = 0,
                           !.memMapCurrentKey = Null,
                           !.memMapCurrentDataIdx = 0])
     EXCEPT !.state = STATE_FLASHING]

\* lines 456-467
ReadingFlashDoneVerify(a) ==
  readForVerify([a EXCEPT !.memMapKeys = 0,
                          !.memMapCurrentKey = Null,
                          !.memMapCurrentDataIdx = 0])

\* a faulty variant of ReadingReadAddressError that leaves the bootloader
\* waiting when the verify pass hits the end of the flash
ReadingReadAddressError_Silent(a) ==
  IF doVerify
  THEN return(consoleLog(a, "ERROR: Reading flash failed during verify", 0))
  ELSE readDone(a)

\* lines 535-547
ReadingReadAddressError(a) ==
  IF doVerify
  THEN return(sendStartApp(consoleLog(a, "ERROR: Reading flash failed during verify", 0)))
  ELSE readDone(a)

\* lines 276-560
handleCanMsg(a, msg) ==
  IF ~ForThisSession(msg) THEN return(a)
  ELSE LET cmd == At(msg.data, CAN_DATA_BYTE_CMD)
       IN CASE a.state = STATE_INIT ->
                 ( CASE cmd = CMD_BOOTLOADER_START -> InitBootloaderStart(a, msg)
                     [] cmd = CMD_FLASH_READY -> InitFlashReady(a, msg)
                     [] cmd = CMD_FLASH_ADDRESS_ERROR -> InitFlashAddressError(a, msg)
                     [] OTHER -> Unexpected(a, msg) )
            [] a.state = STATE_FLASHING ->
                 ( CASE cmd = CMD_FLASH_DATA_ERROR -> FlashingError(a, "Flash data error!")
                     [] cmd = CMD_FLASH_ADDRESS_ERROR -> FlashingError(a, "Flash address error!")
                     [] cmd = CMD_FLASH_READY -> FlashingFlashReady(a, msg)
                     [] cmd = CMD_START_APP -> exit(a, 0)
                     [] OTHER -> Unexpected(a, msg) )
            [] a.state = STATE_READING ->
                 ( CASE cmd = CMD_FLASH_DONE_VERIFY -> ReadingFlashDoneVerify(a)
                     [] cmd = CMD_FLASH_READ_DATA -> ReadingReadData(a, msg)
                     [] cmd = CMD_FLASH_READ_ADDRESS_ERROR -> ReadingReadAddressError(a)
                     [] cmd = CMD_START_APP -> exit(a, 0)
                     [] OTHER -> Unexpected(a, msg) )
            [] OTHER -> a

\* lines 254-270: the callback of the ping timer
pingTick(a) ==
  canSend(a, <<mcuId[1], mcuId[2], CMD_PING, 0, 0, 0, 0, 0>>)

\* ------------------------------------------------------------------------
\* The CAN messages the bus delivers
\* ------------------------------------------------------------------------
Frame(id, data) == [id |-> id, data |-> data]

\* a message of this session: command cmd, byte 3 and bytes 4..7
Msg(cmd, b3, p) ==
  Frame(CAN_ID_MCU_TO_REMOTE_DEFAULT,
        <<ArgsMcuid \div 256, ArgsMcuid % 256, cmd, b3>> \o p)

\* byte 3 of a message that reports count bytes at address addr
Frag(count, addr) == (count * 32) + (addr % 32)

\* an address as the four bytes 4..7, most significant first
BE(addr) == << addr \div 16777216, (addr \div 65536) % 256,
               (addr \div 256) % 256, addr % 256 >>

Signatures == { <<30, 149, 15>>, <<30, 149, 20>>, <<30, 150, 15>>, <<0, 0, 0>> }
Versions   == { 1, 2 }
ReadyCounts == { 0, 2, 4 }
RemoteAddrs == { 0, 2, 4, 256 }
ReadCounts == { 1, 4 }
Payloads   == { <<1, 2, 3, 4>>, <<1, 9, 3, 4>>, <<5, 6, 0, 0>> }
FlashEnds  == { <<0, 0, 119, 255>>, <<0, 0, 0, 3>>, <<0, 0, 0, 1>>,
                 <<255, 255, 255, 255>> }

BootloaderStartMsgs ==
  { Msg(CMD_BOOTLOADER_START, 0, s \o <<v>>) : s \in Signatures, v \in Versions }
\* the byte count of a FLASH_READY has 3 bits: a count above the 4 bytes
\* of a FLASH_DATA is one message of the set
FlashReadyMsgs ==
       { Msg(CMD_FLASH_READY, Frag(c, r), BE(r)) : c \in ReadyCounts, r \in RemoteAddrs }
  \cup { Msg(CMD_FLASH_READY, Frag(5, 5), BE(5)) }
FlashAddressErrorMsgs ==
  { Msg(CMD_FLASH_ADDRESS_ERROR, 0, e) : e \in FlashEnds }
FlashReadDataMsgs ==
       { Msg(CMD_FLASH_READ_DATA, Frag(c, 0), d) : c \in ReadCounts, d \in Payloads }
  \cup { Msg(CMD_FLASH_READ_DATA, Frag(c, 1), <<1, 2, 3, 4>>) : c \in ReadCounts }
  \cup { Msg(CMD_FLASH_READ_DATA, Frag(0, 0), <<0, 0, 0, 0>>),
         Msg(CMD_FLASH_READ_DATA, Frag(4, 31), <<1, 2, 3, 4>>),
         Msg(CMD_FLASH_READ_DATA, Frag(5, 0), <<1, 2, 3, 4>>) }
Plain(cmd) == Msg(cmd, 0, <<0, 0, 0, 0>>)

\* one message of every command the mcu sends, and a ping
OneOfEach ==
  { Msg(CMD_BOOTLOADER_START, 0, <<30, 149, 15, 1>>),
    Msg(CMD_FLASH_READY, Frag(4, 4), BE(4)),
    Msg(CMD_FLASH_ADDRESS_ERROR, 0, <<0, 0, 0, 3>>),
    Msg(CMD_FLASH_READ_DATA, Frag(4, 0), <<1, 2, 3, 4>>),
    Plain(CMD_FLASH_DATA_ERROR), Plain(CMD_FLASH_DONE_VERIFY),
    Plain(CMD_FLASH_READ_ADDRESS_ERROR), Plain(CMD_START_APP), Plain(CMD_PING) }

\* messages of other senders, other sessions, or of another length
ForeignMsgs ==
  UNION { { Frame(CAN_ID_REMOTE_TO_MCU_DEFAULT, m.data),
            Frame(m.id, Put(m.data, 0, 1)),
            Frame(m.id, Put(m.data, 1, 67)),
            Frame(m.id, SubSeq(m.data, 1, 7)),
            Frame(m.id, m.data \o <<0>>) } :
          m \in { Msg(CMD_BOOTLOADER_START, 0, <<30, 149, 15, 1>>),
                  Plain(CMD_START_APP) } }

NoMsg == Frame(0, <<>>)

\* ------------------------------------------------------------------------
\* Initial state: the object after the constructor (lines 53-274)
\* ------------------------------------------------------------------------
MaxCompared == 2
MaxErases == 2

\* messages delivered after the app has sent its first START_APP
MaxLate == 1

\* ------------------------------------------------------------------------
\* The reset message of the constructor (option --reset)
\* ------------------------------------------------------------------------
\* strings are sequences of characters
HexChars == << "0", "1", "2", "3", "4", "5", "6", "7", "8", "9",
               "A", "B", "C", "D", "E", "F" >>
HexCharsLower == << "0", "1", "2", "3", "4", "5", "6", "7", "8", "9",
                    "a", "b", "c", "d", "e", "f" >>
NaN == Undefined

\* the value of a hexadecimal digit, NaN for another character
HexVal(c) ==
  IF \E i \in 1..16 : HexChars[i] = c
  THEN (CHOOSE i \in 1..16 : HexChars[i] = c) - 1
  ELSE IF \E i \in 1..16 : HexCharsLower[i] = c
  THEN (CHOOSE i \in 1..16 : HexCharsLower[i] = c) - 1
  ELSE NaN

\* parseInt(str, 16): the number of the longest prefix of hexadecimal
\* digits, NaN when there is none
RECURSIVE parseHexFrom(_, _, _)
parseHexFrom(str, i, acc) ==
  IF i > Len(str) \/ HexVal(str[i]) = NaN THEN acc
  ELSE parseHexFrom(str, i + 1, (acc * 16) + HexVal(str[i]))

parseInt16(str) ==
  IF str = << >> \/ HexVal(str[1]) = NaN THEN NaN ELSE parseHexFrom(str, 1, 0)

\* str.split('#'): the parts of str between the '#' characters
RECURSIVE split(_, _, _)
split(str, i, part) ==
  IF i > Len(str) THEN << part >>
  ELSE IF str[i] = "#" THEN << part >> \o split(str, i + 1, << >>)
  ELSE split(str, i + 1, Append(part, str[i]))

\* dataStr.match(/../g): the pairs of characters (null, which has no map
\* method, when there is none)
matchPairs(str) ==
  [ i \in 1..(Len(str) \div 2) |-> << str[(2 * i) - 1], str[2 * i] >> ]

\* lines 222-249: what the constructor does with args.reset: the frames
\* it sends, and the exit code if it ends the process
sendReset(reset) ==
  IF ~reset.given THEN [ out |-> << >>, exitCode |-> Running ]
  ELSE
    LET parts    == split(reset.str, 1, << >>)
        canIdStr == parts[1]
        dataStr  == IF Len(parts) >= 2 THEN parts[2] ELSE << >>
        canId    == parseInt16(canIdStr)
        pairs    == matchPairs(dataStr)
    IN  IF (Len(canIdStr) # 3 /\ Len(canIdStr) # 8) \/ canId = NaN
        THEN [ out |-> << >>, exitCode |-> 1 ]
        ELSE IF Len(dataStr) = 1
        THEN [ out |-> << >>, exitCode |-> UncaughtException ]
        ELSE IF \E i \in 1..Len(pairs) : parseInt16(pairs[i]) = NaN
        THEN [ out |-> << >>, exitCode |-> 1 ]
        ELSE [ out |-> << [ id |-> canId,
                            data |-> [ i \in 1..Len(pairs) |->
                                         ToUint8(parseInt16(pairs[i])) ] ] >>,
               exitCode |-> Running ]

\* values of option --reset: absent, the example of the usage text, a
\* standard frame id without data, a two-digit id, a single data character
NoReset == [ given |-> FALSE, str |-> << >> ]
Reset(str) == [ given |-> TRUE, str |-> str ]
ResetExample == << "0", "2", "0", "0", "4", "0", "F", "F", "#",
                   "4", "2", "0", "1", "F", "A" >>
Resets == { NoReset,
            Reset(ResetExample),
            Reset(<< "1", "2", "3" >>),
            Reset(<< "1", "2", "#", "0", "0" >>),
            Reset(<< "1", "2", "3", "#", "4" >>) }

NoHistory ==
  [ erases |-> 0, flashData |-> FALSE, startApp |-> FALSE, verifyFailed |-> FALSE,
    late |-> 0, readSize |-> Undefined, readFailed |-> FALSE, lastAddr |-> Undefined,
    initAnswered |-> FALSE ]

\* the bootloader is left out: any message may arrive at any time
NoTarget == [ started |-> FALSE, ptr |-> 0, written |-> << >> ]

\* the object after the constructor ran for command line c and option
\* --reset reset
Start(c, reset) ==
  /\ args = [ mcuid |-> ArgsMcuid, F |-> c.F, r |-> c.r,
              canIdMcu |-> CAN_ID_MCU_TO_REMOTE_DEFAULT,
              canIdRemote |-> CAN_ID_REMOTE_TO_MCU_DEFAULT ]
  /\ doErase = c.e
  /\ doRead = (c.r # Undefined)
  /\ doVerify = IF c.r # Undefined THEN FALSE ELSE ~c.V
  /\ deviceSignature = loadDeviceInfo(c.partno).deviceSignature
  /\ deviceFlashSize = loadDeviceInfo(c.partno).deviceFlashSize
  /\ memMap = IF c.r # Undefined THEN << >> ELSE c.file
  /\ pingInterval = (c.ping /\ sendReset(reset).exitCode = Running)
  /\ exitCode = sendReset(reset).exitCode
  /\ out = sendReset(reset).out
  /\ state = STATE_INIT
  /\ memMapKeys = 0
  /\ memMapCurrentKey = Null
  /\ memMapCurrentDataIdx = 0
  /\ curAddr = 0
  /\ readDataArr = << >>
  /\ event = "constructor"
  /\ lastMsg = NoMsg
  /\ log = << >>
  /\ cmp = << >>
  /\ files = << >>
  /\ compared = [ a \in ImageAddrs |-> 0 ]
  /\ history = NoHistory

Init ==
  /\ \E c \in CommandLines, reset \in Resets : Start(c, reset)
  /\ target = NoTarget

\* ------------------------------------------------------------------------
\* Steps: one callback of the event loop each
\* ------------------------------------------------------------------------
Cmds(frames) == { At(frames[i].data, CAN_DATA_BYTE_CMD) : i \in 1..Len(frames) }
Texts(lines) == { lines[i][1] : i \in 1..Len(lines) }
Count(seq, x) == Cardinality({ i \in 1..Len(seq) : seq[i] = x })
Min(x, y) == IF x < y THEN x ELSE y
\* the number of the first console line with the text, Undefined if none
LogValue(lines, text) ==
  IF text \in Texts(lines)
  THEN lines[CHOOSE i \in 1..Len(lines) :
               lines[i][1] = text /\ \A j \in 1..(i - 1) : lines[j][1] # text][2]
  ELSE Undefined

\* the fields after a callback that ended as a; an uncaught exception ends
\* the process
Finish(a, ev, msg) ==
  /\ Len(a.readDataArr) <= MaxReadLen
  /\ a.memMapCurrentDataIdx <= MaxDataIdx
  /\ doErase' = a.doErase
  /\ state' = a.state
  /\ pingInterval' = a.pingInterval
  /\ memMapKeys' = a.memMapKeys
  /\ memMapCurrentKey' = a.memMapCurrentKey
  /\ memMapCurrentDataIdx' = a.memMapCurrentDataIdx
  /\ curAddr' = a.curAddr
  /\ readDataArr' = a.readDataArr
  /\ exitCode' = IF a.flow = "throw" THEN UncaughtException ELSE a.exitCode
  /\ event' = ev
  /\ lastMsg' = msg
  /\ out' = a.out
  /\ log' = a.log
  /\ cmp' = a.cmp
  /\ files' = a.files
  /\ compared' = [ x \in DOMAIN compared |->
                     Min(MaxCompared, compared[x] + Count(a.cmp, x)) ]
  /\ history' =
       [ erases |-> Min(MaxErases, history.erases
                                     + Count([ i \in 1..Len(a.out) |->
                                               At(a.out[i].data, CAN_DATA_BYTE_CMD) ],
                                             CMD_FLASH_ERASE)),
         flashData |-> history.flashData \/ CMD_FLASH_DATA \in Cmds(a.out),
         startApp |-> history.startApp \/ CMD_START_APP \in Cmds(a.out),
         verifyFailed |-> history.verifyFailed
                            \/ "ERROR: Verify failed at" \in Texts(a.log),
         late |-> IF history.startApp /\ ev = "onMessage"
                  THEN history.late + 1 ELSE history.late,
         readSize |-> IF "progressStart" \in Texts(a.log)
                      THEN LogValue(a.log, "progressStart") ELSE history.readSize,
         readFailed |-> history.readFailed
                          \/ "ERROR: Reading flash failed during verify" \in Texts(a.log),
         lastAddr |-> IF ~doRead /\ Cmds(a.out) \cap { CMD_FLASH_DATA,
                                                       CMD_FLASH_SET_ADDRESS } # {}
                      THEN a.curAddr ELSE history.lastAddr,
         \* in STATE_INIT: a BOOTLOADER_START has been answered with FLASH_INIT
         initAnswered |-> a.state = STATE_INIT
                            /\ (history.initAnswered
                                  \/ CMD_FLASH_INIT \in Cmds(a.out)) ]
  /\ UNCHANGED cfgVars

\* the channel delivers one of msgs while the app is in state st
Deliver(st, msgs) ==
  \E msg \in msgs :
    /\ exitCode = Running
    /\ state = st
    /\ history.late < MaxLate
    /\ \E a \in { handleCanMsg(This, msg) } : Finish(a, "onMessage", msg)
    /\ UNCHANGED target

\* the messages of msgs with a command other than cmds
Other(msgs, cmds) == { m \in msgs : At(m.data, CAN_DATA_BYTE_CMD) \notin cmds }

Ignored == \E st \in { STATE_INIT, STATE_FLASHING, STATE_READING } :
             Deliver(st, ForeignMsgs)

OnInitBootloaderStart  == Deliver(STATE_INIT, BootloaderStartMsgs)
OnInitFlashReady       == Deliver(STATE_INIT, FlashReadyMsgs)
OnInitFlashAddressError == Deliver(STATE_INIT, FlashAddressErrorMsgs)
OnInitUnexpected       ==
  Deliver(STATE_INIT, Other(OneOfEach, { CMD_BOOTLOADER_START, CMD_FLASH_READY,
                                         CMD_FLASH_ADDRESS_ERROR }))

OnFlashingError        ==
  Deliver(STATE_FLASHING, FlashAddressErrorMsgs \cup { Plain(CMD_FLASH_DATA_ERROR) })
OnFlashingFlashReady   == Deliver(STATE_FLASHING, FlashReadyMsgs)
OnFlashingStartApp     == Deliver(STATE_FLASHING, { Plain(CMD_START_APP) })
OnFlashingUnexpected   ==
  Deliver(STATE_FLASHING, Other(OneOfEach, { CMD_FLASH_DATA_ERROR, CMD_FLASH_ADDRESS_ERROR,
                                             CMD_FLASH_READY, CMD_START_APP }))

OnReadingFlashDoneVerify == Deliver(STATE_READING, { Plain(CMD_FLASH_DONE_VERIFY) })
OnReadingReadData      == Deliver(STATE_READING, FlashReadDataMsgs)
OnReadingReadAddressError ==
  Deliver(STATE_READING, { Plain(CMD_FLASH_READ_ADDRESS_ERROR) })
OnReadingStartApp      == Deliver(STATE_READING, { Plain(CMD_START_APP) })
OnReadingUnexpected    ==
  Deliver(STATE_READING, Other(OneOfEach, { CMD_FLASH_DONE_VERIFY, CMD_FLASH_READ_DATA,
                                            CMD_FLASH_READ_ADDRESS_ERROR, CMD_START_APP }))

\* the interval timer fires
PingTick ==
  /\ exitCode = Running
  /\ pingInterval
  /\ \E a \in { pingTick(This) } : Finish(a, "ping", NoMsg)
  /\ UNCHANGED target

Next ==
  \/ Ignored
  \/ OnInitBootloaderStart
  \/ OnInitFlashReady
  \/ OnInitFlashAddressError
  \/ OnInitUnexpected
  \/ OnFlashingError
  \/ OnFlashingFlashReady
  \/ OnFlashingStartApp
  \/ OnFlashingUnexpected
  \/ OnReadingFlashDoneVerify
  \/ OnReadingReadData
  \/ OnReadingReadAddressError
  \/ OnReadingStartApp
  \/ OnReadingUnexpected
  \/ PingTick

Spec == Init /\ [][Next]_vars

\* ------------------------------------------------------------------------
\* Vocabulary of the properties
\* ------------------------------------------------------------------------
\* msg passes the filter of the session: CAN-ID, 8 data bytes, MCU-ID
FilteredIn(msg) ==
  /\ msg.id = CAN_ID_MCU_TO_REMOTE_DEFAULT
  /\ Len(msg.data) = 8
  /\ msg.data[1] = ArgsMcuid \div 256
  /\ msg.data[2] = ArgsMcuid % 256

\* the last callback handled a filtered-in message with command cmd
Handled(cmd) ==
  event = "onMessage" /\ FilteredIn(lastMsg) /\ lastMsg.data[3] = cmd

\* the frame the host is expected to emit: command, byte 3, bytes 4..7
HostFrame(cmd, b3, p) ==
  [ id |-> CAN_ID_REMOTE_TO_MCU_DEFAULT,
    data |-> <<ArgsMcuid \div 256, ArgsMcuid % 256, cmd, b3>> \o p ]

Zero4 == <<0, 0, 0, 0>>

\* the commands of the frames the last callback emitted (the reset frame
\* of the constructor has no command)
OutCmds ==
  IF event = "constructor" THEN {} ELSE { out[i].data[3] : i \in 1..Len(out) }

cursors == <<curAddr, memMapCurrentKey, memMapCurrentDataIdx, memMapKeys>>

\* the host's cursor is past the image: no block is left to start and the
\* current block, if any, has no byte at the index
Exhausted(key, idx, keys) ==
  /\ keys >= Len(memMap)
  /\ \A i \in 1..Len(memMap) : memMap[i].key = key => idx >= Len(memMap[i].data)

\* ------------------------------------------------------------------------
\* C1: in Init a filtered-in BOOTLOADER_START whose bytes 4..6 are not the
\* expected signature emits nothing, leaves the state Init and the pinger
\* and the cursors as they were; a FLASH_INIT is emitted only for a
\* BOOTLOADER_START with the expected signature and an accepted version
\* (version 1, or option -F), and carries the signature in bytes 4..6.
\* ------------------------------------------------------------------------
C1_SignatureGate ==
  [][ /\ ( state = STATE_INIT /\ Handled(CMD_BOOTLOADER_START)'
           /\ SubSeq(lastMsg'.data, 5, 7) # deviceSignature )
        => ( out' = << >> /\ state' = STATE_INIT
             /\ UNCHANGED <<pingInterval, cursors>> )
      /\ ( CMD_FLASH_INIT \in OutCmds' )
        => ( /\ state = STATE_INIT /\ Handled(CMD_BOOTLOADER_START)'
             /\ SubSeq(lastMsg'.data, 5, 7) = deviceSignature
             /\ (lastMsg'.data[8] = 1 \/ args.F)
             /\ out' = << HostFrame(CMD_FLASH_INIT, 0, deviceSignature \o <<0>>) >> )
    ]_vars

\* a BOOTLOADER_START with an unexpected signature was handled while the
\* pinger runs
C1_Witness ==
  /\ Handled(CMD_BOOTLOADER_START)
  /\ SubSeq(lastMsg.data, 5, 7) = <<30, 149, 20>>
  /\ deviceSignature = <<30, 149, 15>>
  /\ pingInterval /\ state = STATE_INIT /\ out = << >>

\* ------------------------------------------------------------------------
\* C2: a FLASH_DATA frame is emitted only while handling a FLASH_READY
\* whose bytes 4..7 are the host's current address, and it is the only
\* frame of that callback; when a FLASH_READY leaves the write cursor on an
\* image byte, the current address is the address of that byte, and if it
\* is not the reported remote address the host emits
\* FLASH_SET_ADDRESS(current address) and no FLASH_DATA.
\* ------------------------------------------------------------------------
C2_AddressBeforeData ==
  /\ CMD_FLASH_DATA \in OutCmds =>
       /\ Handled(CMD_FLASH_READY)
       /\ SubSeq(lastMsg.data, 5, 8) = BE(curAddr)
       /\ Len(out) = 1
  /\ ( /\ Handled(CMD_FLASH_READY) /\ state = STATE_FLASHING
       /\ ~Exhausted(memMapCurrentKey, memMapCurrentDataIdx, memMapKeys) )
     => /\ curAddr = memMapCurrentKey + memMapCurrentDataIdx
        /\ curAddr \in ImageAddrs
        /\ SubSeq(lastMsg.data, 5, 8) # BE(curAddr)
             => out = << HostFrame(CMD_FLASH_SET_ADDRESS, 0, BE(curAddr)) >>
        /\ SubSeq(lastMsg.data, 5, 8) = BE(curAddr)
             => CMD_FLASH_DATA \in OutCmds

\* image {0x0000:[1,2,3,4], 0x0100:[5]}: the FLASH_READY that reports
\* remote address 4 is answered with FLASH_SET_ADDRESS(0x00000100)
C2_Witness ==
  /\ memMap = ImageS3
  /\ Handled(CMD_FLASH_READY) /\ SubSeq(lastMsg.data, 5, 8) = <<0, 0, 0, 4>>
  /\ out = << HostFrame(CMD_FLASH_SET_ADDRESS, 0, <<0, 0, 1, 0>>) >>
  /\ history.flashData

\* ------------------------------------------------------------------------
\* C3: every emitted FLASH_DATA frame has 8 bytes; bits 7..5 of byte 3 are
\* the number n <= 4 of image bytes in bytes 4..7 and bits 4..0 are the low
\* 5 bits of the current address; bytes 4..4+n-1 are the image bytes at
\* current address .. current address + n - 1, all of the current block;
\* the other data bytes are 0.
\* ------------------------------------------------------------------------
C3_FlashDataChunk ==
  \A i \in 1..Len(out) :
    (event # "constructor" /\ out[i].data[3] = CMD_FLASH_DATA) =>
      LET d == out[i].data
          n == d[4] \div 32
      IN  /\ Len(d) = 8
          /\ n \in 1..4
          /\ d[4] % 32 = curAddr % 32
          /\ \A j \in 0..3 :
               IF j < n
               THEN /\ curAddr + j \in ImageAddrs
                    /\ d[5 + j] = ImageByte(curAddr + j)
                    /\ \E b \in 1..Len(memMap) :
                         /\ memMap[b].key = memMapCurrentKey
                         /\ curAddr + j >= memMap[b].key
                         /\ curAddr + j < memMap[b].key + Len(memMap[b].data)
               ELSE d[5 + j] = 0

\* a chunk of 2 bytes at address 2: byte 3 is (2 << 5) | 2
C3_Witness ==
  /\ memMap = ImageS3
  /\ out = << HostFrame(CMD_FLASH_DATA, 66, <<3, 4, 0, 0>>) >>
  /\ curAddr = 2

\* ------------------------------------------------------------------------
\* C4: a FLASH_READY handled in Flashing that moves the cursor past the
\* image makes the host emit FLASH_DONE_VERIFY and enter Reading when
\* verify is enabled, and FLASH_DONE and stay in Flashing with -V; with -V
\* (and no -r) the host never emits FLASH_READ and never enters Reading;
\* neither FLASH_DONE nor FLASH_DONE_VERIFY is emitted while the cursor
\* has image bytes left.
\* ------------------------------------------------------------------------
C4_FlashDone ==
  /\ [][ ( state = STATE_FLASHING /\ Handled(CMD_FLASH_READY)' ) =>
           IF Exhausted(memMapCurrentKey,
                        memMapCurrentDataIdx + (lastMsg'.data[4] \div 32), memMapKeys)
           THEN IF doVerify
                THEN /\ out' = << HostFrame(CMD_FLASH_DONE_VERIFY, 0, Zero4) >>
                     /\ state' = STATE_READING
                ELSE /\ out' = << HostFrame(CMD_FLASH_DONE, 0, Zero4) >>
                     /\ state' = STATE_FLASHING
           ELSE /\ OutCmds' \cap { CMD_FLASH_DONE, CMD_FLASH_DONE_VERIFY } = {}
                /\ state' = STATE_FLASHING
       ]_vars
  /\ []( (~doVerify /\ ~doRead) =>
           (state # STATE_READING /\ CMD_FLASH_READ \notin OutCmds) )
  /\ []( OutCmds \cap { CMD_FLASH_DONE, CMD_FLASH_DONE_VERIFY } # {} =>
           Exhausted(memMapCurrentKey, memMapCurrentDataIdx, memMapKeys) )

\* with -V the last FLASH_READY of a two-block image is answered with
\* FLASH_DONE and the state stays Flashing
C4_Witness ==
  /\ memMap = ImageS3 /\ ~doVerify
  /\ Handled(CMD_FLASH_READY)
  /\ out = << HostFrame(CMD_FLASH_DONE, 0, Zero4) >>
  /\ state = STATE_FLASHING
  /\ memMapCurrentKey = 256 /\ memMapCurrentDataIdx = 4

\* ------------------------------------------------------------------------
\* C5: once a FLASH_READ_DATA of the verify pass has delivered a byte that
\* differs from the image byte at an address of the image, the host has
\* emitted START_APP and the report names the current address, and the
\* process does not end with exit code 0.
\* ------------------------------------------------------------------------
C5_VerifyFailureIsAnError ==
  /\ "ERROR: Verify failed at" \in Texts(log) =>
       /\ CMD_START_APP \in OutCmds
       /\ \E i \in 1..Len(log) : log[i] = <<"ERROR: Verify failed at", curAddr>>
  /\ (history.verifyFailed /\ exitCode # Running) => exitCode # 0

\* ------------------------------------------------------------------------
\* C6: when a verify session reports "Flash and verify done" (the
\* START_APP of readForVerify), every address of the image has been
\* compared with a byte of the target exactly once; no address outside the
\* image is ever compared.
\* ------------------------------------------------------------------------
C6_ComparedExactlyOnce ==
  /\ (doVerify /\ "Flash and verify done" \in Texts(log)) =>
       \A x \in ImageAddrs : compared[x] = 1
  /\ \A i \in 1..Len(cmp) : cmp[i] \in ImageAddrs

\* ------------------------------------------------------------------------
\* C7: a received frame with another CAN-ID, with a data length other than
\* 8 or with another MCU-ID leaves the state, the cursors, the erase flag,
\* the read buffer, the pinger and the exit code unchanged, and no frame is
\* emitted.
\* ------------------------------------------------------------------------
C7_ForeignFramesIgnored ==
  [][ ( event' = "onMessage" /\ ~FilteredIn(lastMsg') ) =>
        ( UNCHANGED appVars /\ out' = << >> ) ]_vars

\* a BOOTLOADER_START with the right CAN-ID, MCU-ID and signature but only
\* 7 data bytes was ignored in Init, where it would otherwise be answered
C7_Witness ==
  /\ event = "onMessage"
  /\ lastMsg.id = CAN_ID_MCU_TO_REMOTE_DEFAULT
  /\ Len(lastMsg.data) # 8
  /\ lastMsg.data[3] = CMD_BOOTLOADER_START
  /\ state = STATE_INIT /\ pingInterval /\ out = << >>

\* ------------------------------------------------------------------------
\* C8: a filtered-in FLASH_READY in Init takes exactly one branch: in read
\* mode FLASH_SET_ADDRESS(0xFFFFFFFF) and the state stays Init; else with
\* the erase flag set FLASH_ERASE, the flag is cleared and the state stays
\* Init; else the write step runs from the cursors as they are, whatever
\* byte count the frame announces.  FLASH_ERASE is emitted at most once and
\* never after a FLASH_DATA.
\* ------------------------------------------------------------------------
C8_InitFlashReady ==
  /\ [][ ( state = STATE_INIT /\ Handled(CMD_FLASH_READY)' ) =>
           IF doRead
           THEN /\ out' = << HostFrame(CMD_FLASH_SET_ADDRESS, 0, <<255, 255, 255, 255>>) >>
                /\ state' = STATE_INIT
                /\ UNCHANGED <<doErase, cursors>>
           ELSE IF doErase
           THEN /\ out' = << HostFrame(CMD_FLASH_ERASE, 0, Zero4) >>
                /\ ~doErase'
                /\ state' = STATE_INIT
                /\ UNCHANGED cursors
           ELSE IF Exhausted(memMapCurrentKey, memMapCurrentDataIdx, memMapKeys)
           THEN /\ out' = << HostFrame(IF doVerify THEN CMD_FLASH_DONE_VERIFY
                                                   ELSE CMD_FLASH_DONE, 0, Zero4) >>
                /\ state' = IF doVerify THEN STATE_READING ELSE STATE_FLASHING
                /\ UNCHANGED <<doErase, cursors>>
           ELSE /\ state' = STATE_FLASHING
                /\ UNCHANGED doErase
                /\ memMapCurrentKey' + memMapCurrentDataIdx' = curAddr'
                /\ curAddr' = IF memMapCurrentKey = Null
                              THEN memMap[memMapKeys + 1].key ELSE curAddr
                /\ Len(out') = 1
                /\ out'[1].data[3] = IF SubSeq(lastMsg'.data, 5, 8) = BE(curAddr')
                                     THEN CMD_FLASH_DATA ELSE CMD_FLASH_SET_ADDRESS
       ]_vars
  /\ [](history.erases <= 1)
  /\ [](CMD_FLASH_ERASE \in OutCmds => ~history.flashData)

\* after one FLASH_ERASE the session went on to Flashing and sent data;
\* the FLASH_READY that started the write step announced 4 bytes
C8_Witness ==
  /\ history.erases = 1 /\ history.flashData
  /\ Handled(CMD_FLASH_READY) /\ lastMsg.data[4] \div 32 = 4
  /\ state = STATE_FLASHING /\ memMapCurrentDataIdx = 0 /\ curAddr = 0
  /\ CMD_FLASH_DATA \in OutCmds

\* ------------------------------------------------------------------------
\* C9: in Init a BOOTLOADER_START with the expected signature and a
\* version byte other than 1 emits nothing, leaves the state Init and the
\* pinger as it was when -F is not given; with -F, as with version 1, the
\* host stops the pinger and emits FLASH_INIT.
\* ------------------------------------------------------------------------
C9_VersionGate ==
  [][ ( /\ state = STATE_INIT /\ Handled(CMD_BOOTLOADER_START)'
        /\ SubSeq(lastMsg'.data, 5, 7) = deviceSignature ) =>
        IF lastMsg'.data[8] = 1 \/ args.F
        THEN /\ out' = << HostFrame(CMD_FLASH_INIT, 0, deviceSignature \o <<0>>) >>
             /\ ~pingInterval'
             /\ state' = STATE_INIT
             /\ UNCHANGED <<doErase, cursors, readDataArr, exitCode>>
        ELSE /\ out' = << >>
             /\ state' = STATE_INIT
             /\ UNCHANGED appVars
    ]_vars

\* with -F a BOOTLOADER_START of version 2 stopped the pinger and was
\* answered with FLASH_INIT
C9_Witness ==
  /\ args.F
  /\ Handled(CMD_BOOTLOADER_START) /\ lastMsg.data[8] = 2
  /\ CMD_FLASH_INIT \in OutCmds
  /\ ~pingInterval

\* ------------------------------------------------------------------------
\* C10: in Reading a FLASH_READ_DATA whose low 5 bits of byte 3 are not
\* the low 5 bits of the current address makes the host emit START_APP
\* without comparing or caching a byte of the frame; one whose low 5 bits
\* are those of the current address is not reported as unexpected.
\* ------------------------------------------------------------------------
C10_AddressPartChecked ==
  [][ ( state = STATE_READING /\ Handled(CMD_FLASH_READ_DATA)' ) =>
        IF lastMsg'.data[4] % 32 # curAddr % 32
        THEN /\ CMD_START_APP \in OutCmds'
             /\ cmp' = << >>
             /\ readDataArr' = readDataArr
        ELSE "Got an unexpected address" \notin Texts(log')
    ]_vars

\* ------------------------------------------------------------------------
\* C11: in read mode a filtered-in FLASH_ADDRESS_ERROR in Init reports
\* bootloader size = flash size - program size, with program size =
\* FLASHEND_BL + 1 and FLASHEND_BL the 32-bit integer of bytes 4..7, most
\* significant byte first; the program size is the total of the progress
\* bar when -r gives no limit; the state becomes Reading and the host
\* emits FLASH_READ with bytes 3..7 zero.  Outside read mode the frame
\* changes no field and nothing is emitted.
\* ------------------------------------------------------------------------
\* bytes 4..7 as a 32-bit two's complement integer, most significant first
Int32BE(p) ==
  ((IF p[1] >= 128 THEN p[1] - 256 ELSE p[1]) * 16777216)
    + (p[2] * 65536) + (p[3] * 256) + p[4]

C12_ReadUntil ==
  /\ [][ ( doRead /\ state = STATE_READING /\ Handled(CMD_FLASH_READ_DATA)' ) =>
           IF curAddr' > history.readSize
           THEN /\ CMD_START_APP \in OutCmds'
                /\ Len(files') = 1
           ELSE out' = << HostFrame(CMD_FLASH_READ, 0, BE(curAddr')) >>
       ]_vars
  /\ []( (doRead /\ CMD_FLASH_READ \in OutCmds) => curAddr <= history.readSize )

\* ------------------------------------------------------------------------
\* C13: in read mode the buffer written when the limit R is reached holds
\* exactly R + 1 bytes, whatever byte counts the frames had; the buffer
\* written on FLASH_READ_ADDRESS_ERROR holds exactly current address bytes.
\* ------------------------------------------------------------------------
C13_BufferLength ==
  ( doRead /\ files # << >> ) =>
    IF Handled(CMD_FLASH_READ_ADDRESS_ERROR)
    THEN Len(files[1].data) = curAddr
    ELSE /\ Handled(CMD_FLASH_READ_DATA)
         /\ Len(files[1].data) = history.readSize + 1

\* ------------------------------------------------------------------------
\* C14: a filtered-in FLASH_READ_ADDRESS_ERROR in Reading: in a verify
\* session the host emits START_APP without reporting the verification as
\* done, and the process does not end with exit code 0; in read mode the
\* host writes the bytes read so far as one block at 0x0000, emits
\* START_APP, and the process ends with exit code 0.
\* ------------------------------------------------------------------------
C14_ReadAddressError ==
  /\ [][ ( state = STATE_READING /\ Handled(CMD_FLASH_READ_ADDRESS_ERROR)' ) =>
           IF doVerify
           THEN /\ out' = << HostFrame(CMD_START_APP, 0, Zero4) >>
                /\ "Flash and verify done" \notin Texts(log')
                /\ files' = << >>
           ELSE /\ out' = << HostFrame(CMD_START_APP, 0, Zero4) >>
                /\ files' = << [ key |-> 0, data |-> readDataArr ] >>
       ]_vars
  /\ []( (history.readFailed /\ exitCode # Running) => exitCode # 0 )
  /\ []( (doRead /\ history.startApp /\ exitCode # Running) => exitCode = 0 )

\* ------------------------------------------------------------------------
\* C15: a PING is emitted only while the state is Init: the pinger is
\* cancelled by every callback that leaves Init, and by termination.
\* ------------------------------------------------------------------------
C15_PingOnlyInInit ==
  /\ []( CMD_PING \in OutCmds => state = STATE_INIT )
  /\ [][ ( state = STATE_INIT /\ state' # STATE_INIT ) => ~pingInterval' ]_vars
  /\ []( exitCode # Running => ~pingInterval )

\* ------------------------------------------------------------------------
\* C16: every frame the host emits, the reset frame of the start-up and
\* the PING frames included, has exactly 8 data bytes, with the high byte
\* of the MCU-ID in byte 0 and the low byte in byte 1.
\* ------------------------------------------------------------------------
EightBytesForMcu(frame) ==
  /\ Len(frame.data) = 8
  /\ frame.data[1] = ArgsMcuid \div 256
  /\ frame.data[2] = ArgsMcuid % 256

C16_EveryFrame ==
  \A i \in 1..Len(out) : EightBytesForMcu(out[i])

\* C16, amended: every frame the host emits in a callback of the session
\* (message handlers and ping timer) goes to the remote-to-MCU CAN-ID and
\* has exactly 8 data bytes with the MCU-ID in bytes 0 and 1; the
\* constructor emits at most one frame, the reset frame.
C16_EverySessionFrame ==
  /\ event # "constructor" =>
       \A i \in 1..Len(out) :
         EightBytesForMcu(out[i]) /\ out[i].id = CAN_ID_REMOTE_TO_MCU_DEFAULT
  /\ event = "constructor" => Len(out) <= 1

\* the ping timer has emitted a PING frame
C16_Witness ==
  /\ event = "ping"
  /\ out = << HostFrame(CMD_PING, 0, Zero4) >>

\* ------------------------------------------------------------------------
\* C17: on each fatal error (signature mismatch, version mismatch without
\* -F, verify mismatch, read address error during verify, address part of
\* a FLASH_READ_DATA other than the low 5 bits of the current address) the
\* host emits a START_APP frame.
\* ------------------------------------------------------------------------
SignatureOrVersionRefused ==
  /\ state = STATE_INIT /\ Handled(CMD_BOOTLOADER_START)'
  /\ \/ SubSeq(lastMsg'.data, 5, 7) # deviceSignature
     \/ lastMsg'.data[8] # 1 /\ ~args.F

C18_ReadModeNeverWrites ==
  doRead =>
    /\ state # STATE_FLASHING
    /\ OutCmds \cap { CMD_FLASH_DATA, CMD_FLASH_ERASE, CMD_FLASH_DONE,
                      CMD_FLASH_DONE_VERIFY } = {}
    /\ ~doVerify

\* -r with -e: a FLASH_READY in Init was answered with
\* FLASH_SET_ADDRESS(0xFFFFFFFF), the erase flag is still set
C18_Witness ==
  /\ doRead /\ doErase
  /\ Handled(CMD_FLASH_READY)
  /\ out = << HostFrame(CMD_FLASH_SET_ADDRESS, 0, <<255, 255, 255, 255>>) >>
  /\ state = STATE_INIT

\* ------------------------------------------------------------------------
\* C19: in write mode the addresses of the emitted FLASH_DATA and
\* FLASH_SET_ADDRESS frames never decrease, and each step from one
\* emission to the next either stays in the block and advances by at most
\* 4, or goes to the start of the next block of the image.
\* ------------------------------------------------------------------------
InBlock(k, x) ==
  x >= memMap[k].key /\ x < memMap[k].key + Len(memMap[k].data)

C19_AddressSteps ==
  [][ ( /\ ~doRead
        /\ OutCmds' \cap { CMD_FLASH_DATA, CMD_FLASH_SET_ADDRESS } # {}
        /\ history.lastAddr # Undefined )
      => /\ curAddr' >= history.lastAddr
         /\ \/ /\ curAddr' - history.lastAddr <= 4
               /\ \E k \in 1..Len(memMap) :
                    InBlock(k, history.lastAddr) /\ InBlock(k, curAddr')
            \/ \E k \in 1..(Len(memMap) - 1) :
                 InBlock(k, history.lastAddr) /\ curAddr' = memMap[k + 1].key
    ]_vars

\* ------------------------------------------------------------------------
\* C20: with an unknown part number (signature 0 0 0, flash size 0) no
\* BOOTLOADER_START is accepted, whatever its bytes 4..7: the host never
\* emits FLASH_INIT.
\* ------------------------------------------------------------------------
C20_UnknownPartRejectsAll ==
  ( deviceSignature = <<0, 0, 0>> /\ deviceFlashSize = 0 ) =>
    CMD_FLASH_INIT \notin OutCmds

\* ------------------------------------------------------------------------
\* C21: a filtered-in START_APP received in Flashing or in Reading ends the
\* process with exit code 0, with the pinger cleared and nothing emitted;
\* received in Init it changes no field, nothing is emitted and the
\* process goes on.
\* ------------------------------------------------------------------------
C21_StartAppReceived ==
  [][ Handled(CMD_START_APP)' =>
        IF state \in { STATE_FLASHING, STATE_READING }
        THEN /\ exitCode' = 0
             /\ ~pingInterval'
             /\ out' = << >>
             /\ UNCHANGED <<state, cursors, doErase, readDataArr>>
        ELSE /\ state = STATE_INIT
             /\ UNCHANGED appVars
             /\ exitCode' = Running
             /\ out' = << >>
    ]_vars

\* the target's START_APP ended a write session without verify, which was
\* still in Flashing after FLASH_DONE
C21_Witness ==
  /\ Handled(CMD_START_APP)
  /\ state = STATE_FLASHING /\ ~doVerify /\ memMap = ImageS3
  /\ memMapCurrentKey = 256
  /\ exitCode = 0 /\ ~pingInterval

\* ------------------------------------------------------------------------
\* C22: a handler leaves STATE_INIT, or emits FLASH_ERASE, FLASH_DATA,
\* FLASH_SET_ADDRESS or FLASH_READ from STATE_INIT, only when a
\* BOOTLOADER_START with the expected signature and an accepted version
\* has been received before and answered with FLASH_INIT.
\* ------------------------------------------------------------------------
FlashCmds ==
  { CMD_FLASH_ERASE, CMD_FLASH_DATA, CMD_FLASH_SET_ADDRESS, CMD_FLASH_READ }

C22_GatedByBootloaderStart ==
  [][ ( /\ state = STATE_INIT
        /\ event' = "onMessage"
        /\ (state' # STATE_INIT \/ OutCmds' \cap FlashCmds # {}) )
        => history.initAnswered
    ]_vars

\* ------------------------------------------------------------------------
\* A session with a conforming bootloader.  The bootloader answers each
\* frame of the host with the message the protocol has for it: it keeps a
\* write pointer (ptr), which FLASH_SET_ADDRESS sets and FLASH_DATA
\* advances, and the bytes it wrote (written, pairs of address and byte).
\* ------------------------------------------------------------------------
\* write sessions: with and without -e and -V, one with --ping
ConformingLines ==
       { CommandLine(e, V, FALSE, FALSE, Undefined, "m328p", f) :
           e \in BOOLEAN, V \in BOOLEAN,
           f \in { ImageS3, ImageFive, ImageTwo, ImageEmpty } }
  \cup { CommandLine(FALSE, FALSE, FALSE, TRUE, Undefined, "m328p", ImageFive) }

\* the write pointer the bootloader starts with
StartPtrs == { 0, 4 }

\* the number of bytes a FLASH_READ_DATA carries
ConformingReadCounts == { 1, 2, 4 }

InitConforming ==
  /\ \E c \in ConformingLines, reset \in { NoReset, Reset(ResetExample) } :
       Start(c, reset)
  /\ \E p \in StartPtrs : target = [ started |-> FALSE, ptr |-> p, written |-> << >> ]

\* the frame the host emitted last is a cmd frame
HostSent(cmd) ==
  /\ event # "constructor"
  /\ out # << >>
  /\ At(out[Len(out)].data, CAN_DATA_BYTE_CMD) = cmd

\* bytes 4..7 of the frame the host emitted last, as an address
HostAddr == Int32BE(SubSeq(out[Len(out)].data, 5, 8))

\* the byte the bootloader's flash holds at address x: what was written
\* there last, 0xFF where nothing was written
FlashAt(x) ==
  LET at == { i \in 1..Len(target.written) : target.written[i][1] = x }
  IN  IF at = {} THEN 255
      ELSE target.written[CHOOSE i \in at : \A k \in at : k <= i][2]

\* the host handles the bootloader's message msg; the bootloader is then t
Respond(msg, t) ==
  /\ exitCode = Running
  /\ \E a \in { handleCanMsg(This, msg) } : Finish(a, "onMessage", msg)
  /\ target' = t

\* the FLASH_READY of a bootloader whose write pointer is ptr, after it
\* took count data bytes
Ready(count, ptr) == Msg(CMD_FLASH_READY, Frag(count, ptr), BE(ptr))

TargetBootloaderStart ==
  /\ ~target.started
  /\ Respond(Msg(CMD_BOOTLOADER_START, 0, deviceSignature \o <<BOOTLOADER_CMD_VERSION>>),
             [target EXCEPT !.started = TRUE])

TargetReadyAfterInit ==
  /\ HostSent(CMD_FLASH_INIT) \/ HostSent(CMD_FLASH_ERASE)
  /\ Respond(Ready(0, target.ptr), target)

TargetReadyAfterSetAddress ==
  /\ HostSent(CMD_FLASH_SET_ADDRESS)
  /\ Respond(Ready(0, HostAddr), [target EXCEPT !.ptr = HostAddr])

TargetReadyAfterData ==
  /\ HostSent(CMD_FLASH_DATA)
  /\ LET data == out[Len(out)].data
         n == byteCountOf(data)
     IN  Respond(Ready(n, target.ptr + n),
                 [target EXCEPT
                    !.ptr = @ + n,
                    !.written = @ \o [ i \in 1..n |->
                                         <<target.ptr + i - 1, At(data, 3 + i)>> ]])

TargetDoneVerify ==
  /\ HostSent(CMD_FLASH_DONE_VERIFY)
  /\ Respond(Plain(CMD_FLASH_DONE_VERIFY), target)

TargetReadData ==
  /\ HostSent(CMD_FLASH_READ)
  /\ \E n \in ConformingReadCounts :
       Respond(Msg(CMD_FLASH_READ_DATA, Frag(n, HostAddr),
                   [ i \in 1..4 |-> FlashAt(HostAddr + i - 1) ]),
               target)

TargetStartApp ==
  /\ HostSent(CMD_FLASH_DONE) \/ HostSent(CMD_START_APP)
  /\ Respond(Plain(CMD_START_APP), target)

NextConforming ==
  \/ TargetBootloaderStart
  \/ TargetReadyAfterInit
  \/ TargetReadyAfterSetAddress
  \/ TargetReadyAfterData
  \/ TargetDoneVerify
  \/ TargetReadData
  \/ TargetStartApp
  \/ PingTick

\* every message the bootloader has to send is delivered eventually
SpecConforming ==
  /\ InitConforming
  /\ [][NextConforming]_vars
  /\ WF_vars(TargetBootloaderStart)
  /\ WF_vars(TargetReadyAfterInit)
  /\ WF_vars(TargetReadyAfterSetAddress)
  /\ WF_vars(TargetReadyAfterData)
  /\ WF_vars(TargetDoneVerify)
  /\ WF_vars(TargetReadData)
  /\ WF_vars(TargetStartApp)

\* ------------------------------------------------------------------------
\* C23: with a bootloader whose every FLASH_READY reports the number of
\* data bytes of the FLASH_DATA it answers (0 after FLASH_SET_ADDRESS) and
\* its write pointer, the bytes of the FLASH_DATA frames, placed where the
\* write pointer was, are exactly the image when the host emits FLASH_DONE
\* or FLASH_DONE_VERIFY: every image byte once, and no other byte.
\* ------------------------------------------------------------------------
C23_ImageWritten ==
  ( event = "onMessage"
    /\ OutCmds \cap { CMD_FLASH_DONE, CMD_FLASH_DONE_VERIFY } # {} )
    => /\ Len(target.written) = Cardinality(ImageAddrs)
       /\ { target.written[i] : i \in 1..Len(target.written) }
            = { <<x, ImageByte(x)>> : x \in ImageAddrs }

\* the host emitted FLASH_DONE_VERIFY for the image of two blocks after the
\* bootloader, whose write pointer started at 4, wrote 5 bytes
C23_Witness ==
  /\ event = "onMessage"
  /\ CMD_FLASH_DONE_VERIFY \in OutCmds
  /\ memMap = ImageS3
  /\ Len(target.written) = 5
  /\ target.ptr = 257

\* ------------------------------------------------------------------------
\* C24: once the host has emitted START_APP, no later callback emits a
\* frame or writes the read buffer to the file again, whatever the
\* bootloader sends before its own START_APP.
\* ------------------------------------------------------------------------
C24_QuietAfterStartApp ==
  [][ history.startApp => (out' = << >> /\ files' = << >>) ]_vars

\* ------------------------------------------------------------------------
\* C25: the address check of a FLASH_READ_DATA in Reading.  As claimed, it
\* never fires (C25_CheckNeverFires).  As the source has it, it fires, with
\* the report of an unexpected address, exactly when the current address
\* is odd and the address part of the message is not 31
\* (C25_CheckFiresOnOddAddress).
\* ------------------------------------------------------------------------
CheckFired == "Got an unexpected address" \in Texts(log)

C25_CheckNeverFires ==
  [][ (state = STATE_READING /\ Handled(CMD_FLASH_READ_DATA)') => ~CheckFired' ]_vars

C25_CheckFiresOnOddAddress ==
  [][ (state = STATE_READING /\ Handled(CMD_FLASH_READ_DATA)') =>
        ( CheckFired' <=> (curAddr % 2 = 1 /\ addrPartOf(lastMsg'.data) # 31) )
    ]_vars

\* the check fired in a verify session on a message whose address part,
\* 0, is not that of the current address
C25_Witness ==
  /\ Handled(CMD_FLASH_READ_DATA)
  /\ CheckFired
  /\ doVerify
  /\ curAddr % 2 = 1
  /\ addrPartOf(lastMsg.data) = 0
  /\ CMD_START_APP \in OutCmds

\* ------------------------------------------------------------------------
\* C26: after the constructor and after every callback, when there is a
\* current block, the current address is the start address of the block
\* plus the index in the block.
\* ------------------------------------------------------------------------
C26_AddressIsKeyPlusIndex ==
  memMapCurrentKey # Null => curAddr = memMapCurrentKey + memMapCurrentDataIdx

\* the verify pass stopped at the second byte of a message, inside the
\* first block, and the cursor had moved past the first byte
C26_Witness ==
  /\ Handled(CMD_FLASH_READ_DATA)
  /\ "ERROR: Verify failed at" \in Texts(log)
  /\ memMapCurrentKey = 0
  /\ memMapCurrentDataIdx = 1
  /\ curAddr = 1

\* ------------------------------------------------------------------------
\* C27: a callback changes the state only forward: from Init to Flashing;
\* from Init to Reading in read mode on a FLASH_ADDRESS_ERROR; to Reading
\* when the image is exhausted and verify is on (from Flashing, or from
\* Init through Flashing within the callback that starts flashing).  The
\* state never returns to Init, never goes from Reading to Flashing, and
\* is Reading only in read mode or with verify on.
\* ------------------------------------------------------------------------
C27_StateMovesForward ==
  [][ /\ state' # state =>
           \/ state = STATE_INIT /\ state' = STATE_FLASHING
           \/ /\ state = STATE_INIT /\ state' = STATE_READING
              /\ doRead /\ Handled(CMD_FLASH_ADDRESS_ERROR)'
           \/ /\ state \in { STATE_INIT, STATE_FLASHING } /\ state' = STATE_READING
              /\ doVerify /\ Handled(CMD_FLASH_READY)'
              /\ Exhausted(memMapCurrentKey', memMapCurrentDataIdx', memMapKeys')
      /\ state' = STATE_READING => (doRead \/ doVerify)
    ]_vars

\* the session went from Flashing to Reading at the end of the image of
\* two blocks, and the bootloader's FLASH_DONE_VERIFY has started the
\* verify pass in Reading
C27_Witness ==
  /\ state = STATE_READING
  /\ memMap = ImageTwo /\ doVerify
  /\ Handled(CMD_FLASH_DONE_VERIFY)
  /\ CMD_FLASH_READ \in OutCmds
  /\ history.flashData

CodecHalves == { 0, 1, 255, 256, 32767, 32768, 65535 }

\* the number n as its halves; two numbers are equal iff their halves are
Halves(n) == << n \div 65536, n % 65536 >>

\* the operand addr of >> in sendSetFlashAddress, for the address h: the
\* operator >> takes its operand modulo 2^32 as a signed number
ShiftOperand(h) == ToInt32(h[1], h[2])

InitCodec ==
  /\ Start(CommandLine(FALSE, TRUE, FALSE, FALSE, Undefined, "m328p", ImageEmpty),
           NoReset)
  /\ target = NoTarget

codecRest ==
  <<cfgVars, doErase, state, pingInterval, memMapKeys, memMapCurrentKey,
    memMapCurrentDataIdx, readDataArr, exitCode, log, cmp, files, compared,
    history, target>>

\* this.sendSetFlashAddress(this.curAddr) for this.curAddr = h
CodecSetAddress ==
  \E hi \in CodecHalves, lo \in CodecHalves :
    /\ event \in { "constructor", "echoReady", "echoAddressError" }
    /\ curAddr' = <<hi, lo>>
    /\ out' = sendSetFlashAddress(This, ShiftOperand(<<hi, lo>>)).out
    /\ event' = "setAddress"
    /\ lastMsg' = NoMsg
    /\ UNCHANGED codecRest

\* the bootloader echoes the four address bytes in a message of command cmd
CodecEcho(cmd, ev) ==
  /\ event = "setAddress"
  /\ lastMsg' = Msg(cmd, 0, SubSeq(out[1].data, 5, 8))
  /\ event' = ev
  /\ out' = << >>
  /\ UNCHANGED curAddr
  /\ UNCHANGED codecRest

CodecEchoReady == CodecEcho(CMD_FLASH_READY, "echoReady")

CodecEchoAddressError == CodecEcho(CMD_FLASH_ADDRESS_ERROR, "echoAddressError")

NextCodec ==
  \/ CodecSetAddress
  \/ CodecEchoReady
  \/ CodecEchoAddressError

SpecCodec == InitCodec /\ [][NextCodec]_vars

\* ------------------------------------------------------------------------
\* C29: for every address A of 0..0xFFFFFFFF, the bytes 4..7 the host
\* writes for A give A again, as an unsigned number, under the host's
\* decoding of a FLASH_READY and of a FLASH_ADDRESS_ERROR; so for a
\* FLASH_READY that echoes the address just set, the host finds the
\* addresses equal and does not set the address again.
\* ------------------------------------------------------------------------
C29_AddressRoundTrip ==
  /\ event = "echoReady" =>
       /\ Halves(curAddrRemote(lastMsg.data)) = curAddr
       /\ ~NeedSetAddress(curAddr, Halves(curAddrRemote(lastMsg.data)))
  /\ event = "echoAddressError" =>
       Halves(flashendBL(lastMsg.data)) = curAddr

\* ------------------------------------------------------------------------
\* C30: with a conforming bootloader and every due message delivered, a
\* write session with verify ends with success: the verify pass runs to
\* its end, which the host reports, and the process ends with exit
\* code 0.
\* ------------------------------------------------------------------------
C30_TerminatesWithSuccess ==
  doVerify => ( /\ <>("Flash and verify done" \in Texts(log))
                /\ <>(exitCode = 0) )
====
